---- MODULE Spec2Model ----
(***************************************************************************)
(* Inlay hints of crates/ra_ide/src/inlay_hints.rs.                        *)
(*                                                                         *)
(* A pattern (ast::Pat) is a tree of records                               *)
(*   [kind, kids, short, ty]                                               *)
(* kind  : the syntax kind of the pattern node,                            *)
(* kids  : its child patterns in source order,                             *)
(* short : for a RecordPat, short[i] says that entry i of the field list   *)
(*         is a BindPat written directly in the list (`S { a }`), not the  *)
(*         pattern of a RecordFieldPat (`S { f: pat }`),                   *)
(* ty    : what the semantic oracle (SourceAnalyzer::type_of_pat) answers   *)
(*         for this node.                                                  *)
(* A node of a pattern is named by its path from the root (child indices); *)
(* two ast::Pat values are equal iff they are the same node, i.e. the same *)
(* path of the same root.                                                  *)
(***************************************************************************)
EXTENDS Integers, Sequences, FiniteSets, TLC

VARIABLES
    \* get_leaf_pats (the worklist loop)
    root_pat, pats_to_process, leaf_pats, loop_pc,
    \* the values maybe_leaf_pat has taken: the nodes pop_front returned so far
    popped,
    \* inlay_hints: its inputs, its locals and what its invocations returned
    file, max_inlay_hint_length, res, pos, pc, returned

leaf_vars == <<root_pat, pats_to_process, leaf_pats, loop_pc, popped>>
hint_vars == <<file, max_inlay_hint_length, res, pos, pc, returned>>
vars == <<leaf_vars, hint_vars>>

(* ------------------------------ bounds -------------------------------- *)

\* Largest number of pattern nodes of a root pattern given to get_leaf_pats.
MaxPatNodes == 4

\* Largest number of pattern nodes of a pattern of a single-node file.
MaxHintPatNodes == 3

\* Largest nesting depth of the generic types given to the renderer.
MaxTyDepth == 2

\* Largest maximum label length tried.
MaxCap == 12

\* Largest number of arguments of a call and of names of a signature.
MaxArgs == 2
MaxParams == 2

\* Largest number of syntax nodes of a file built from the test scenarios.
MaxNodes == 2

\* Number of invocations of inlay_hints on one input.
MaxCalls == 2

(* ------------------------------ options ------------------------------- *)

\* Option<usize>
None == [some |-> FALSE, val |-> 0]
Some(n) == [some |-> TRUE, val |-> n]

(* ------------------------------- types -------------------------------- *)

\* type_of_pat returned None.
NoType == [name |-> "", args |-> <<>>]

\* The distinguished unknown type (Ty::Unknown).
UnknownType == [name |-> "{unknown}", args |-> <<>>]

Ty(name, args) == [name |-> name, args |-> args]

I32 == Ty("i32", <<>>)

(* ------------------------------ patterns ------------------------------ *)

Pat(kind, kids, short, ty) == [kind |-> kind, kids |-> kids, short |-> short, ty |-> ty]

AllFalse(n) == [i \in 1..n |-> FALSE]

\* The ways to mark the entries of a record field list as shorthand: only a
\* BindPat can stand directly in the list.
ShortMarks(f) ==
    {s \in [1..Len(f) -> BOOLEAN] : \A i \in 1..Len(f) : s[i] => f[i].kind = "BindPat"}

RECURSIVE Trees(_, _), Forests(_, _)
\* The sequences of patterns with k nodes in all.
Forests(k, tys) ==
    IF k = 0 THEN {<<>>}
    ELSE UNION {{<<t>> \o f : t \in Trees(j, tys), f \in Forests(k - j, tys)} : j \in 1..k}

\* The patterns with exactly n nodes whose leaf bindings have a type among tys.
Trees(n, tys) ==
    LET F == Forests(n - 1, tys) IN
       {Pat("BindPat", f, <<>>, ty) :
            f \in {g \in F : Len(g) = 0}, ty \in tys}
  \cup {Pat("BindPat", f, <<>>, NoType) : f \in {g \in F : Len(g) = 1}}
  \cup {Pat("OrPat", f, AllFalse(Len(f)), NoType) : f \in {g \in F : Len(g) >= 2}}
  \cup {Pat("TuplePat", f, AllFalse(Len(f)), NoType) : f \in F}
  \cup {Pat("TupleStructPat", f, AllFalse(Len(f)), NoType) : f \in {g \in F : Len(g) >= 1}}
  \cup UNION {{Pat("RecordPat", f, s, NoType) : s \in ShortMarks(f)} : f \in F}
  \cup {Pat("ParenPat", f, <<FALSE>>, NoType) : f \in {g \in F : Len(g) = 1}}
  \cup {Pat("RefPat", f, <<FALSE>>, NoType) : f \in {g \in F : Len(g) = 1}}
  \cup {Pat("PlaceholderPat", f, <<>>, NoType) : f \in {g \in F : Len(g) = 0}}

PatsUpTo(n, tys) == UNION {Trees(k, tys) : k \in 1..n}

RECURSIVE PatAt(_, _)
\* The node of pattern p at path.
PatAt(p, path) ==
    IF path = <<>> THEN p ELSE PatAt(p.kids[Head(path)], Tail(path))

RECURSIVE Size(_)
SumSizes(f) == LET RECURSIVE S(_)
                   S(i) == IF i = 0 THEN 0 ELSE S(i - 1) + Size(f[i])
               IN S(Len(f))
\* Number of nodes of a pattern.
Size(p) == 1 + SumSizes(p.kids)

RECURSIVE TextStart(_, _)
\* Offset of the node at path from the start of pattern p: every node takes
\* one unit of text of its own and its children follow in source order.
TextStart(p, path) ==
    IF path = <<>> THEN 0
    ELSE 1 + SumSizes(SubSeq(p.kids, 1, Head(path) - 1))
           + TextStart(p.kids[Head(path)], Tail(path))

\* pat.syntax().text_range() of the node at path of a root pattern that starts
\* at offset `at` of the file: the half-open interval <<start, end>>.
text_range(root, at, path) ==
    <<at + TextStart(root, path),
      at + TextStart(root, path) + Size(PatAt(root, path))>>

(* --------------------------- get_leaf_pats ---------------------------- *)

\* The indices at which the sequence of booleans keep is true, ascending.
SelectIdx(keep) ==
    LET RECURSIVE S(_)
        S(i) == IF i > Len(keep) THEN <<>>
                ELSE (IF keep[i] THEN <<i>> ELSE <<>>) \o S(i + 1)
    IN S(1)

AllKids(p, path) == [i \in 1..Len(p.kids) |-> path \o <<i>>]

\* RecordPatEnqueued taking every entry of the field list for a written
\* field pattern, the shorthand bindings too.
RecordPatEnqueuedAllEntries(p, path) ==
    LET shorthand == SelectIdx([i \in 1..Len(p.kids) |-> p.short[i]])
    IN AllKids(p, path)
       \o [k \in 1..Len(shorthand) |->
             IF p.kids[shorthand[k]].kids # <<>>
             THEN path \o <<shorthand[k], 1>>
             ELSE path \o <<shorthand[k]>>]

\* RecordPatEnqueued without the filter on the kind of a written field
\* pattern: `field: name` is enqueued like any other field pattern.
RecordPatEnqueuedUnfiltered(p, path) ==
    LET explicit == SelectIdx([i \in 1..Len(p.kids) |-> ~p.short[i]])
        shorthand == SelectIdx([i \in 1..Len(p.kids) |-> p.short[i]])
    IN [k \in 1..Len(explicit) |-> path \o <<explicit[k]>>]
       \o [k \in 1..Len(shorthand) |->
             IF p.kids[shorthand[k]].kids # <<>>
             THEN path \o <<shorthand[k], 1>>
             ELSE path \o <<shorthand[k]>>]

\* record_field_pats().filter_map(pat().filter(kind != BIND_PAT))
\*   .chain(bind_pats().map(pat().unwrap_or(bind_pat)))
RecordPatEnqueued(p, path) ==
    LET explicit == SelectIdx([i \in 1..Len(p.kids) |->
                                  ~p.short[i] /\ p.kids[i].kind # "BindPat"])
        shorthand == SelectIdx([i \in 1..Len(p.kids) |-> p.short[i]])
    IN [k \in 1..Len(explicit) |-> path \o <<explicit[k]>>]
       \o [k \in 1..Len(shorthand) |->
             IF p.kids[shorthand[k]].kids # <<>>
             THEN path \o <<shorthand[k], 1>>
             ELSE path \o <<shorthand[k]>>]

\* What one iteration of the loop pushes to the back of the queue for the
\* node at path.
Enqueued(root, path) ==
    LET p == PatAt(root, path) IN
    CASE p.kind = "BindPat" -> AllKids(p, path)
      [] p.kind = "OrPat" -> AllKids(p, path)
      [] p.kind = "TuplePat" -> AllKids(p, path)
      [] p.kind = "RecordPat" -> RecordPatEnqueued(p, path)
      [] p.kind = "TupleStructPat" -> AllKids(p, path)
      [] p.kind = "ParenPat" -> AllKids(p, path)
      [] p.kind = "RefPat" -> AllKids(p, path)
      [] OTHER -> <<>>

\* Whether one iteration of the loop pushes the node at path to leaf_pats.
IsLeaf(root, path) ==
    LET p == PatAt(root, path) IN p.kind = "BindPat" /\ p.kids = <<>>

RECURSIVE LeafLoop(_, _, _)
LeafLoop(root, queue, leaves) ==
    IF queue = <<>> THEN leaves
    ELSE LeafLoop(root,
                  Tail(queue) \o Enqueued(root, Head(queue)),
                  IF IsLeaf(root, Head(queue)) THEN Append(leaves, Head(queue))
                  ELSE leaves)

get_leaf_pats(root) == LeafLoop(root, <<<<>>>>, <<>>)

(* ------------------------- rendering a type --------------------------- *)

\* The ellipsis marker, three bytes long as the marker the renderer writes.
Ellipsis == "..."

\* HirFormatter::should_truncate: the bytes written so far reach max_size.
should_truncate(buf, max) == max.some /\ Len(buf) >= max.val

RECURSIVE hir_fmt(_, _, _)
\* HirFormatter::write_joined over the type arguments from the i-th on.
write_joined(args, i, buf, max) ==
    LET RECURSIVE W(_, _)
        W(k, b) == IF k > Len(args) THEN b
                   ELSE W(k + 1, hir_fmt(args[k], IF k > 1 THEN b \o ", " ELSE b, max))
    IN W(i, buf)

\* HirDisplay::hir_fmt of a type with its arguments, appending to buf.
hir_fmt(ty, buf, max) ==
    IF should_truncate(buf, max) THEN buf \o Ellipsis
    ELSE IF ty.args = <<>> THEN buf \o ty.name
    ELSE write_joined(ty.args, 1, buf \o ty.name \o "<", max) \o ">"

\* ty.display_truncated(db, max).to_string()
display_truncated(ty, max) == hir_fmt(ty, "", max)

(* ------------------------------- hints -------------------------------- *)

InlayHint(range, kind, label) == [range |-> range, kind |-> kind, label |-> label]

\* analyzer.type_of_pat(db, &pat): NoType when it is None.
type_of_pat(root, path) == PatAt(root, path).ty

is_unknown(ty) == ty = UnknownType

\* get_pat_type_hints that renders every label without a maximum length.
get_pat_type_hints_untruncated(acc, root, at, skip_root_pat_hint, max) ==
    LET original_pat == <<>>
        not_root == SelectSeq(get_leaf_pats(root),
                        LAMBDA pat : ~skip_root_pat_hint \/ pat # original_pat)
        typed == SelectSeq(not_root,
                        LAMBDA pat : /\ type_of_pat(root, pat) # NoType
                                     /\ ~is_unknown(type_of_pat(root, pat)))
    IN acc \o [i \in 1..Len(typed) |->
                 InlayHint(text_range(root, at, typed[i]), "TypeHint",
                           display_truncated(type_of_pat(root, typed[i]), None))]

\* The leaves up to the first one the oracle does not type.
TypedPrefix(root, leaves) ==
    LET RECURSIVE P(_)
        P(i) == IF i > Len(leaves) THEN <<>>
                ELSE IF type_of_pat(root, leaves[i]) = NoType
                        \/ is_unknown(type_of_pat(root, leaves[i])) THEN <<>>
                ELSE <<leaves[i]>> \o P(i + 1)
    IN P(1)

\* get_pat_type_hints that stops at the first leaf without a type (`?` on
\* the whole request instead of filter_map).
get_pat_type_hints_stop_at_failure(acc, root, at, skip_root_pat_hint, max) ==
    LET original_pat == <<>>
        not_root == SelectSeq(get_leaf_pats(root),
                        LAMBDA pat : ~skip_root_pat_hint \/ pat # original_pat)
        typed == TypedPrefix(root, not_root)
    IN acc \o [i \in 1..Len(typed) |->
                 InlayHint(text_range(root, at, typed[i]), "TypeHint",
                           display_truncated(type_of_pat(root, typed[i]), max))]

\* Appends the type hints of the leaves of root_pat, which starts at offset
\* `at` of the file, to acc.
get_pat_type_hints(acc, root, at, skip_root_pat_hint, max) ==
    LET original_pat == <<>>
        not_root == SelectSeq(get_leaf_pats(root),
                        LAMBDA pat : ~skip_root_pat_hint \/ pat # original_pat)
        typed == SelectSeq(not_root,
                        LAMBDA pat : /\ type_of_pat(root, pat) # NoType
                                     /\ ~is_unknown(type_of_pat(root, pat)))
    IN acc \o [i \in 1..Len(typed) |->
                 InlayHint(text_range(root, at, typed[i]), "TypeHint",
                           display_truncated(type_of_pat(root, typed[i]), max))]

(* ---------------------------- syntax nodes ---------------------------- *)

\* A syntax node of the file, as far as get_inlay_hints reads it:
\*   ascribed : a let statement has a type annotation,
\*   present  : the optional child exists (the parameter list of a lambda,
\*              the condition of an if or while, the argument list of a call),
\*   pats     : the pattern places of the node in source order, each
\*              [ascribed, pat] with pat a sequence of zero or one pattern,
\*   args     : the syntax kinds of the arguments of a call,
\*   sig      : zero or one list of parameter names (get_fn_signature).
Node(kind, ascribed, present, pats, args, sig) ==
    [kind |-> kind, ascribed |-> ascribed, present |-> present,
     pats |-> pats, args |-> args, sig |-> sig]

Place(ascribed, pat) == [ascribed |-> ascribed, pat |-> pat]

LetStmt(ascribed, pat) == Node("LET_STMT", ascribed, TRUE, <<Place(ascribed, pat)>>, <<>>, <<>>)
LambdaExpr(present, params) == Node("LAMBDA_EXPR", FALSE, present, params, <<>>, <<>>)
ForExpr(pat) == Node("FOR_EXPR", FALSE, TRUE, <<Place(FALSE, pat)>>, <<>>, <<>>)
IfExpr(present, pat) == Node("IF_EXPR", FALSE, present, <<Place(FALSE, pat)>>, <<>>, <<>>)
WhileExpr(present, pat) == Node("WHILE_EXPR", FALSE, present, <<Place(FALSE, pat)>>, <<>>, <<>>)
MatchArmList(arms) ==
    Node("MATCH_ARM_LIST", FALSE, TRUE, [i \in 1..Len(arms) |-> Place(FALSE, arms[i])], <<>>, <<>>)
CallExpr(present, args, sig) == Node("CALL_EXPR", FALSE, present, <<>>, args, sig)
MethodCallExpr(present, args, sig) == Node("METHOD_CALL_EXPR", FALSE, present, <<>>, args, sig)
OtherNode == Node("OTHER", FALSE, TRUE, <<>>, <<>>, <<>>)

PlaceWidth(place) == 1 + (IF place.pat = <<>> THEN 0 ELSE Size(place.pat[1]))

PlacesWidth(pats, n) ==
    LET RECURSIVE S(_)
        S(i) == IF i = 0 THEN 0 ELSE S(i - 1) + PlaceWidth(pats[i])
    IN S(n)

\* The text of a node: one unit of its own, its pattern places, its arguments.
NodeWidth(node) == 1 + PlacesWidth(node.pats, Len(node.pats)) + Len(node.args)

\* Offset of the i-th node of the file f.
NodeStart(f, i) ==
    LET RECURSIVE S(_)
        S(k) == IF k = 0 THEN 0 ELSE S(k - 1) + NodeWidth(f[k])
    IN S(i - 1)

\* Offset of the pattern of the j-th pattern place of a node starting at `at`.
PatStart(node, at, j) == at + 1 + PlacesWidth(node.pats, j - 1) + 1

\* arg.syntax().text_range() of the i-th argument of a call starting at `at`.
arg_text_range(node, at, i) == <<at + i, at + i + 1>>

(* ------------------------ get_param_name_hints ------------------------ *)

Min(a, b) == IF a < b THEN a ELSE b

\* get_param_name_hints that keeps the receiver among the parameters of a
\* method call.
get_param_name_hints_with_receiver(acc, expr, at) ==
    IF ~expr.present THEN acc
    ELSE IF expr.sig = <<>> THEN acc
    ELSE
      LET args == expr.args
          parameters == expr.sig[1]
          zipped == SelectIdx([i \in 1..Min(Len(parameters), Len(args)) |->
                                  args[i] = "LITERAL" /\ parameters[i] # ""])
      IN acc \o [k \in 1..Len(zipped) |->
                   InlayHint(arg_text_range(expr, at, zipped[k]), "ParameterHint",
                             parameters[zipped[k]])]

\* get_param_name_hints without the test `!param.is_empty()`.
get_param_name_hints_any_name(acc, expr, at) ==
    IF ~expr.present THEN acc
    ELSE IF expr.sig = <<>> THEN acc
    ELSE
      LET args == expr.args
          names == expr.sig[1]
          parameters == IF expr.kind = "METHOD_CALL_EXPR" /\ names # <<>>
                        THEN Tail(names) ELSE names
          zipped == SelectIdx([i \in 1..Min(Len(parameters), Len(args)) |->
                                  args[i] = "LITERAL"])
      IN acc \o [k \in 1..Len(zipped) |->
                   InlayHint(arg_text_range(expr, at, zipped[k]), "ParameterHint",
                             parameters[zipped[k]])]

get_param_name_hints(acc, expr, at) ==
    IF ~expr.present THEN acc
    ELSE IF expr.sig = <<>> THEN acc
    ELSE
      LET args == expr.args
          names == expr.sig[1]
          parameters == IF expr.kind = "METHOD_CALL_EXPR" /\ names # <<>>
                        THEN Tail(names) ELSE names
          zipped == SelectIdx([i \in 1..Min(Len(parameters), Len(args)) |->
                                  args[i] = "LITERAL" /\ parameters[i] # ""])
      IN acc \o [k \in 1..Len(zipped) |->
                   InlayHint(arg_text_range(expr, at, zipped[k]), "ParameterHint",
                             parameters[zipped[k]])]

(* --------------------------- get_inlay_hints -------------------------- *)

\* One get_pat_type_hints call for each of the given pattern places of the
\* node that has a pattern, in order.
PatRequests(acc, node, at, keep, skip_root_pat_hint, max) ==
    LET RECURSIVE R(_, _)
        R(j, a) ==
            IF j > Len(keep) THEN a
            ELSE R(j + 1,
                   IF node.pats[keep[j]].pat = <<>> THEN a
                   ELSE get_pat_type_hints(a, node.pats[keep[j]].pat[1],
                            PatStart(node, at, keep[j]), skip_root_pat_hint, max))
    IN R(1, acc)

\* LetStmtArm without the test of ascribed_type().
LetStmtArmUngated(acc, node, at, max) == PatRequests(acc, node, at, <<1>>, FALSE, max)

\* ast::LetStmt(it)
LetStmtArm(acc, node, at, max) ==
    IF node.ascribed THEN acc
    ELSE PatRequests(acc, node, at, <<1>>, FALSE, max)

\* ast::LambdaExpr(it)
LambdaExprArm(acc, node, at, max) ==
    IF ~node.present THEN acc
    ELSE PatRequests(acc, node, at,
             SelectIdx([j \in 1..Len(node.pats) |-> ~node.pats[j].ascribed]),
             FALSE, max)

\* ast::ForExpr(it)
ForExprArm(acc, node, at, max) == PatRequests(acc, node, at, <<1>>, FALSE, max)

\* IfExprArm passing skip_root_pat_hint = false.
IfExprArmNoSkip(acc, node, at, max) ==
    IF ~node.present THEN acc
    ELSE PatRequests(acc, node, at, <<1>>, FALSE, max)

\* ast::IfExpr(it)
IfExprArm(acc, node, at, max) ==
    IF ~node.present THEN acc
    ELSE PatRequests(acc, node, at, <<1>>, TRUE, max)

\* ast::WhileExpr(it)
WhileExprArm(acc, node, at, max) ==
    IF ~node.present THEN acc
    ELSE PatRequests(acc, node, at, <<1>>, TRUE, max)

\* ast::MatchArmList(it)
MatchArmListArm(acc, node, at, max) ==
    PatRequests(acc, node, at, [j \in 1..Len(node.pats) |-> j], TRUE, max)

get_inlay_hints(acc, node, at, max) ==
    CASE node.kind = "LET_STMT" -> LetStmtArm(acc, node, at, max)
      [] node.kind = "LAMBDA_EXPR" -> LambdaExprArm(acc, node, at, max)
      [] node.kind = "FOR_EXPR" -> ForExprArm(acc, node, at, max)
      [] node.kind = "IF_EXPR" -> IfExprArm(acc, node, at, max)
      [] node.kind = "WHILE_EXPR" -> WhileExprArm(acc, node, at, max)
      [] node.kind = "MATCH_ARM_LIST" -> MatchArmListArm(acc, node, at, max)
      [] node.kind = "CALL_EXPR" -> get_param_name_hints(acc, node, at)
      [] node.kind = "METHOD_CALL_EXPR" -> get_param_name_hints(acc, node, at)
      [] OTHER -> acc

(* ------------------- the worklist loop, step by step ------------------- *)

Bind(ty) == Pat("BindPat", <<>>, <<>>, ty)
Tuple(kids) == Pat("TuplePat", kids, AllFalse(Len(kids)), NoType)

\* tests::let_statement: `let (a, (b, c, (d, e), f)) = ...`
LetStatementPat ==
    Tuple(<<Bind(I32),
            Tuple(<<Bind(I32), Bind(I32),
                    Tuple(<<Bind(Ty("f64", <<>>)), Bind(Ty("f64", <<>>))>>),
                    Bind(I32)>>)>>)

LeafPats == PatsUpTo(MaxPatNodes, {I32}) \cup {LetStatementPat}

\* The variables of inlay_hints while only get_leaf_pats runs.
HintIdle ==
    /\ file = <<>>
    /\ max_inlay_hint_length = None
    /\ res = <<>>
    /\ pos = 1
    /\ pc = "off"
    /\ returned = <<>>

\* The variables of the worklist loop while inlay_hints runs (there
\* get_leaf_pats is evaluated inside get_pat_type_hints, in one step).
LeafIdle ==
    /\ root_pat = Bind(I32)
    /\ pats_to_process = <<>>
    /\ leaf_pats = <<>>
    /\ loop_pc = "off"
    /\ popped = <<>>

InitLeaf ==
    /\ root_pat \in LeafPats
    /\ pats_to_process = <<<<>>>>
    /\ leaf_pats = <<>>
    /\ loop_pc = "loop"
    /\ popped = <<>>
    /\ HintIdle

\* pop_front returns a node of the given kind.
FrontKind(kind) ==
    /\ loop_pc = "loop"
    /\ pats_to_process # <<>>
    /\ PatAt(root_pat, Head(pats_to_process)).kind = kind

\* Pop with the children pushed to the front of the queue (a stack: depth
\* first).
PopDepthFirst ==
    /\ pats_to_process' = Enqueued(root_pat, Head(pats_to_process)) \o Tail(pats_to_process)
    /\ leaf_pats' = IF IsLeaf(root_pat, Head(pats_to_process))
                    THEN Append(leaf_pats, Head(pats_to_process))
                    ELSE leaf_pats
    /\ popped' = Append(popped, Head(pats_to_process))
    /\ UNCHANGED <<root_pat, loop_pc>>
    /\ UNCHANGED hint_vars

\* Pop reading the front of the queue without removing it.
PopWithoutRemoving ==
    /\ pats_to_process' = pats_to_process \o Enqueued(root_pat, Head(pats_to_process))
    /\ leaf_pats' = IF IsLeaf(root_pat, Head(pats_to_process))
                    THEN Append(leaf_pats, Head(pats_to_process))
                    ELSE leaf_pats
    /\ popped' = Append(popped, Head(pats_to_process))
    /\ UNCHANGED <<root_pat, loop_pc>>
    /\ UNCHANGED hint_vars

\* One iteration of `while let Some(maybe_leaf_pat) = pats_to_process.pop_front()`.
Pop ==
    /\ pats_to_process' = Tail(pats_to_process) \o Enqueued(root_pat, Head(pats_to_process))
    /\ leaf_pats' = IF IsLeaf(root_pat, Head(pats_to_process))
                    THEN Append(leaf_pats, Head(pats_to_process))
                    ELSE leaf_pats
    /\ popped' = Append(popped, Head(pats_to_process))
    /\ UNCHANGED <<root_pat, loop_pc>>
    /\ UNCHANGED hint_vars

PopBindPat == FrontKind("BindPat") /\ Pop
PopOrPat == FrontKind("OrPat") /\ Pop
PopTuplePat == FrontKind("TuplePat") /\ Pop
PopRecordPat == FrontKind("RecordPat") /\ Pop
PopTupleStructPat == FrontKind("TupleStructPat") /\ Pop
PopParenPat == FrontKind("ParenPat") /\ Pop
PopRefPat == FrontKind("RefPat") /\ Pop
PopOtherPat == FrontKind("PlaceholderPat") /\ Pop

\* pop_front returned None: the loop ends and leaf_pats is returned.
LeafReturn ==
    /\ loop_pc = "loop"
    /\ pats_to_process = <<>>
    /\ loop_pc' = "done"
    /\ UNCHANGED <<root_pat, pats_to_process, leaf_pats, popped>>
    /\ UNCHANGED hint_vars

NextLeaf ==
    \/ PopBindPat
    \/ PopOrPat
    \/ PopTuplePat
    \/ PopRecordPat
    \/ PopTupleStructPat
    \/ PopParenPat
    \/ PopRefPat
    \/ PopOtherPat
    \/ LeafReturn

SpecLeaf == InitLeaf /\ [][NextLeaf]_vars

\* The loop is sequential code that keeps running: an iteration that can be
\* taken is taken.
SpecLeafFair == InitLeaf /\ [][NextLeaf]_vars /\ WF_vars(NextLeaf)

(* ---------------------------- inlay_hints ----------------------------- *)

\* Invoke with the result list kept from the invocation before.
InvokeKeepingRes ==
    /\ pc = "idle"
    /\ Len(returned) < MaxCalls
    /\ pos' = 1
    /\ pc' = "run"
    /\ UNCHANGED <<file, max_inlay_hint_length, returned, res>>
    /\ UNCHANGED leaf_vars

\* inlay_hints is entered: a new SourceBinder and an empty result list.
Invoke ==
    /\ pc = "idle"
    /\ Len(returned) < MaxCalls
    /\ res' = <<>>
    /\ pos' = 1
    /\ pc' = "run"
    /\ UNCHANGED <<file, max_inlay_hint_length, returned>>
    /\ UNCHANGED leaf_vars

\* The traversal is at a node of the given kind.
AtNode(kind) == pc = "run" /\ pos <= Len(file) /\ file[pos].kind = kind

\* Visit with the hints of the node put in front of the list.
VisitPrepending ==
    /\ res' = get_inlay_hints(<<>>, file[pos], NodeStart(file, pos), max_inlay_hint_length)
               \o res
    /\ pos' = pos + 1
    /\ UNCHANGED <<file, max_inlay_hint_length, pc, returned>>
    /\ UNCHANGED leaf_vars

\* One iteration of `for node in file.syntax().descendants()`.
Visit ==
    /\ res' = get_inlay_hints(res, file[pos], NodeStart(file, pos), max_inlay_hint_length)
    /\ pos' = pos + 1
    /\ UNCHANGED <<file, max_inlay_hint_length, pc, returned>>
    /\ UNCHANGED leaf_vars

VisitLetStmt == AtNode("LET_STMT") /\ Visit
VisitLambdaExpr == AtNode("LAMBDA_EXPR") /\ Visit
VisitForExpr == AtNode("FOR_EXPR") /\ Visit
VisitIfExpr == AtNode("IF_EXPR") /\ Visit
VisitWhileExpr == AtNode("WHILE_EXPR") /\ Visit
VisitMatchArmList == AtNode("MATCH_ARM_LIST") /\ Visit
VisitCallExpr == AtNode("CALL_EXPR") /\ Visit
VisitMethodCallExpr == AtNode("METHOD_CALL_EXPR") /\ Visit
VisitOther == AtNode("OTHER") /\ Visit

\* The descendants are exhausted: res is returned.
Return ==
    /\ pc = "run"
    /\ pos > Len(file)
    /\ returned' = Append(returned, res)
    /\ pc' = "idle"
    /\ UNCHANGED <<file, max_inlay_hint_length, res, pos>>
    /\ UNCHANGED leaf_vars

Next ==
    \/ Invoke
    \/ VisitLetStmt
    \/ VisitLambdaExpr
    \/ VisitForExpr
    \/ VisitIfExpr
    \/ VisitWhileExpr
    \/ VisitMatchArmList
    \/ VisitCallExpr
    \/ VisitMethodCallExpr
    \/ VisitOther
    \/ Return

(* ------------------ inputs: files of a single node -------------------- *)

SeqsUpTo(S, n) == UNION {[1..k -> S] : k \in 0..n}

\* The answers of the oracle for a leaf binding of a generated pattern.
LeafTypes == {UnknownType, I32}

HintPats == PatsUpTo(MaxHintPatNodes, LeafTypes)

PatNodes ==
    UNION {{LetStmt(FALSE, <<p>>), LetStmt(TRUE, <<p>>), ForExpr(<<p>>),
            IfExpr(TRUE, <<p>>), WhileExpr(TRUE, <<p>>), MatchArmList(<<<<p>>>>),
            LambdaExpr(TRUE, <<Place(FALSE, <<p>>)>>)} : p \in HintPats}

RECURSIVE TypesUpTo(_)
\* The generic types of tests::hint_truncation and a two-parameter one,
\* nested to depth d.
TypesUpTo(d) ==
    IF d = 0 THEN {Ty("u32", <<>>)}
    ELSE LET T == TypesUpTo(d - 1) IN
         T \cup {Ty(n, <<t>>) : n \in {"Smol", "VeryLongOuterName"}, t \in T}
           \cup {Ty("Pair", <<t, u>>) : t \in T, u \in T}

TyNodes == {LetStmt(FALSE, <<Bind(ty)>>) : ty \in TypesUpTo(MaxTyDepth)}

Caps == {None} \cup {Some(n) : n \in 0..MaxCap}

ArgLists == SeqsUpTo({"LITERAL", "PATH_EXPR"}, MaxArgs)

ParamNames == SeqsUpTo({"", "foo", "bar"}, MaxParams)

\* A function called by path may be a method, its receiver then a parameter
\* like the others (`Test::method(&t, 3456)`).
CallNodes ==
         {CallExpr(TRUE, a, <<n>>) : a \in ArgLists, n \in ParamNames}
    \cup {CallExpr(TRUE, a, <<<<"self">> \o n>>) : a \in ArgLists, n \in ParamNames}
    \cup {CallExpr(TRUE, a, <<>>) : a \in ArgLists}
    \cup {CallExpr(FALSE, <<>>, <<n>>) : n \in ParamNames}

\* The function a method call resolves to has a receiver.
MethodCallNodes ==
         {MethodCallExpr(TRUE, a, <<<<"self">> \o n>>) : a \in ArgLists, n \in ParamNames}
    \cup {MethodCallExpr(TRUE, a, <<>>) : a \in ArgLists}
    \cup {MethodCallExpr(FALSE, <<>>, <<<<"self">> \o n>>) : n \in ParamNames}

InitNode ==
    /\ \/ /\ file \in {<<n>> : n \in PatNodes \cup CallNodes \cup MethodCallNodes
                                            \cup {OtherNode}}
          /\ max_inlay_hint_length = None
       \/ /\ file \in {<<n>> : n \in TyNodes}
          /\ max_inlay_hint_length \in Caps
    /\ res = <<>>
    /\ pos = 1
    /\ pc = "idle"
    /\ returned = <<>>
    /\ LeafIdle

SpecNode == InitNode /\ [][Next]_vars

(* --------------- inputs: files of the test scenarios ------------------ *)

TupleStruct(kids) == Pat("TupleStructPat", kids, AllFalse(Len(kids)), NoType)
Placeholder == Pat("PlaceholderPat", <<>>, <<>>, NoType)
PathPat == Pat("PathPat", <<>>, <<>>, NoType)

\* `Test { a, b }`
RecordAB ==
    Pat("RecordPat", <<Bind(Ty("CustomOption", <<Ty("u32", <<>>)>>)), Bind(Ty("u8", <<>>))>>,
        <<TRUE, TRUE>>, NoType)

SmolSmol == Ty("Smol", <<Ty("Smol", <<Ty("u32", <<>>)>>)>>)

ScenarioNodes ==
    { LetStmt(FALSE, <<Bind(I32)>>),                    \* let test = 54;
      LetStmt(TRUE, <<Tuple(<<Bind(I32), Bind(I32)>>)>>), \* let (a, b): (i32, i32) = ..;
      LetStmt(FALSE, <<>>),                             \* let = 54;
      LetStmt(FALSE, <<Tuple(<<Bind(NoType), Bind(I32), Bind(UnknownType)>>)>>),
      LetStmt(FALSE, <<Bind(SmolSmol)>>),               \* let c = Smol(Smol(0u32))
      ForExpr(<<Bind(I32)>>),                           \* for increment in 0..2 {}
      ForExpr(<<>>),                                    \* for in 0..2 {}
      IfExpr(TRUE, <<Bind(I32)>>),                      \* if let test = &test {}
      IfExpr(TRUE, <<TupleStruct(<<Bind(I32)>>)>>),     \* if let CustomOption::Some(test) = ..
      IfExpr(TRUE, <<>>),                               \* if test == CustomOption::None {}
      IfExpr(FALSE, <<>>),                              \* if {}
      WhileExpr(TRUE, <<TupleStruct(<<RecordAB>>)>>),   \* while let Some(Test { a, b }) = ..
      WhileExpr(FALSE, <<>>),                           \* while {}
      MatchArmList(<<<<PathPat>>, <<Bind(I32)>>, <<TupleStruct(<<Bind(I32)>>)>>, <<>>>>),
      LambdaExpr(TRUE, <<Place(FALSE, <<Bind(I32)>>), Place(TRUE, <<Bind(I32)>>),
                         Place(FALSE, <<>>)>>),         \* |a, b: i32, | ..
      LambdaExpr(FALSE, <<>>),
      \* test_func(1, 2, "hello", 3, not_literal)
      CallExpr(TRUE, <<"LITERAL", "LITERAL", "LITERAL", "LITERAL", "PATH_EXPR">>,
               <<<<"foo", "bar", "msg", "", "last">>>>),
      CallExpr(TRUE, <<"LITERAL">>, <<>>),              \* unresolved(1)
      CallExpr(FALSE, <<>>, <<<<"foo">>>>),             \* test_func
      MethodCallExpr(TRUE, <<"LITERAL">>, <<<<"self", "param">>>>), \* t.method(123)
      MethodCallExpr(TRUE, <<"LITERAL">>, <<>>),        \* t.unresolved(123)
      OtherNode }

Init ==
    /\ file \in SeqsUpTo(ScenarioNodes, MaxNodes)
    /\ max_inlay_hint_length \in {None, Some(8)}
    /\ res = <<>>
    /\ pos = 1
    /\ pc = "idle"
    /\ returned = <<>>
    /\ LeafIdle

Spec == Init /\ [][Next]_vars

(* ---------------------- claims on get_leaf_pats ----------------------- *)

\* Paths p and q name nodes of one tree: p starts before q in the source.
RECURSIVE PathBefore(_, _)
PathBefore(p, q) ==
    IF p = <<>> THEN q # <<>>
    ELSE IF q = <<>> THEN FALSE
    ELSE IF Head(p) = Head(q) THEN PathBefore(Tail(p), Tail(q))
    ELSE Head(p) < Head(q)

\* Nesting depth of a node: the number of patterns it is nested in.
Depth(path) == Len(path)

Parent(path) == SubSeq(path, 1, Len(path) - 1)

IsTupleLeaf(root, path) ==
    /\ path # <<>>
    /\ PatAt(root, Parent(path)).kind \in {"TuplePat", "TupleStructPat"}

ShallowerFirst(leaves) ==
    \A i, j \in 1..Len(leaves) : i < j => Depth(leaves[i]) <= Depth(leaves[j])

TupleLeavesLeftToRight(root, leaves) ==
    \A i, j \in 1..Len(leaves) :
        (/\ i < j
         /\ Depth(leaves[i]) = Depth(leaves[j])
         /\ IsTupleLeaf(root, leaves[i])
         /\ IsTupleLeaf(root, leaves[j])) => PathBefore(leaves[i], leaves[j])

\* a, b, c, f, d, e of `(a, (b, c, (d, e), f))`
LetStatementOrder == <<<<1>>, <<2, 1>>, <<2, 2>>, <<2, 4>>, <<2, 3, 1>>, <<2, 3, 2>>>>

AscendingRanges(root, leaves) ==
    \A i, j \in 1..Len(leaves) :
        i < j => text_range(root, 0, leaves[i])[1] < text_range(root, 0, leaves[j])[1]

BreadthFirst(root, leaves) ==
    /\ ShallowerFirst(leaves)
    /\ TupleLeavesLeftToRight(root, leaves)
    /\ root = LetStatementPat =>
          leaves = LetStatementOrder /\ ~AscendingRanges(root, leaves)

RECURSIVE AllPaths(_)
\* The paths of all nodes of p.
AllPaths(p) ==
    {<<>>} \cup UNION {{<<i>> \o q : q \in AllPaths(p.kids[i])} : i \in 1..Len(p.kids)}

\* Some record pattern of root has a shorthand binding `name @ pat`.
HasShorthandSubPat(root) ==
    \E path \in AllPaths(root) :
        LET p == PatAt(root, path) IN
        \E i \in 1..Len(p.kids) :
            p.kind = "RecordPat" /\ p.short[i] /\ p.kids[i].kids # <<>>

\* C5 as stated: get_leaf_pats returns the leaves of every pattern in
\* breadth-first order: a shallower leaf precedes every deeper leaf, leaves of
\* tuple and tuple-struct patterns at one depth are in source order, and
\* `(a, (b, c, (d, e), f))` gives a, b, c, f, d, e, not ascending in range.
C5_AsStated == loop_pc = "done" => BreadthFirst(root_pat, leaf_pats)

\* C5 amended: the same, for every pattern in which no record shorthand
\* binding carries a nested sub-pattern (`S { name @ pat }`): there the
\* sub-pattern is enqueued in the binding's place, one level early.
C5_BreadthFirst ==
    (loop_pc = "done" /\ ~HasShorthandSubPat(root_pat))
        => BreadthFirst(root_pat, leaf_pats)

\* C5 witness: the loop has returned the leaves of the test's nested tuple
\* `(a, (b, c, (d, e), f))` in the order a, b, c, f, d, e.
C5_Witness ==
    /\ loop_pc = "done"
    /\ root_pat = LetStatementPat
    /\ leaf_pats = LetStatementOrder


(* ----------------------- claims on the dispatch ----------------------- *)

\* The i-th node of the file has been visited by the running or the last
\* invocation, whose hints so far are res.
Visited(i) == pc # "off" /\ i \in 1..Len(file) /\ i < pos

InSpan(range, span) == span[1] <= range[1] /\ range[2] <= span[2]

NodeSpan(f, i) == <<NodeStart(f, i), NodeStart(f, i) + NodeWidth(f[i])>>

\* The hints of res anchored inside the i-th node of the file.
HintsOf(i) == SelectSeq(res, LAMBDA h : InSpan(h.range, NodeSpan(file, i)))

Ranges(hints) == [k \in 1..Len(hints) |-> hints[k].range]

Hintable(ty) == ty # NoType /\ ty # UnknownType

\* Pattern p has a leaf binding, below the root, that the oracle types.
HasTypedNestedLeaf(p) ==
    \E k \in 1..Len(get_leaf_pats(p)) :
        get_leaf_pats(p)[k] # <<>> /\ Hintable(type_of_pat(p, get_leaf_pats(p)[k]))

\* C1: a let statement with a type annotation gets no hint at all, whatever
\* its pattern and whatever the oracle answers for its leaves.
C1_AscribedLetNoHint ==
    \A i \in 1..Len(file) :
        (Visited(i) /\ file[i].kind = "LET_STMT" /\ file[i].ascribed)
            => HintsOf(i) = <<>>

\* C1 witness: an annotated let whose pattern has a nested leaf of known
\* type has been visited.
C1_Witness ==
    \E i \in 1..Len(file) :
        /\ Visited(i)
        /\ file[i].kind = "LET_STMT"
        /\ file[i].ascribed
        /\ file[i].pats[1].pat # <<>>
        /\ HasTypedNestedLeaf(file[i].pats[1].pat[1])

SkipRootKinds == {"IF_EXPR", "WHILE_EXPR", "MATCH_ARM_LIST"}
KeepRootKinds == {"LET_STMT", "LAMBDA_EXPR", "FOR_EXPR"}

\* The j-th pattern place of the node holds a pattern that is passed to
\* get_pat_type_hints.
Requested(node, j) ==
    /\ node.kind \in SkipRootKinds \cup KeepRootKinds
    /\ j \in 1..Len(node.pats)
    /\ node.pats[j].pat # <<>>
    /\ node.present
    /\ ~node.pats[j].ascribed

\* The ranges of the leaves of pattern p at offset `at` that are to be
\* hinted, in the order of get_leaf_pats.
LeafRanges(p, at, skip_root) ==
    LET keep == SelectSeq(get_leaf_pats(p),
                    LAMBDA l : /\ Hintable(type_of_pat(p, l))
                               /\ (skip_root => l # <<>>))
    IN [k \in 1..Len(keep) |-> text_range(p, at, keep[k])]

PatSpan(node, at, j) ==
    <<PatStart(node, at, j), PatStart(node, at, j) + Size(node.pats[j].pat[1])>>

\* C2: of a pattern of an if-let, while-let or match arm the root is not
\* hinted, also when it is a leaf binding, and every other leaf that
\* get_leaf_pats returns is hinted if the oracle types it; of a pattern of a
\* let, closure parameter or for loop every such leaf is, the root included.
C2_SkipRootOnly ==
    \A i \in 1..Len(file) : \A j \in 1..Len(file[i].pats) :
        (Visited(i) /\ Requested(file[i], j)) =>
            LET node == file[i]
                at == NodeStart(file, i)
                p == node.pats[j].pat[1]
                got == SelectSeq(res, LAMBDA h : InSpan(h.range, PatSpan(node, at, j)))
            IN /\ Ranges(got) = LeafRanges(p, PatStart(node, at, j),
                                           node.kind \in SkipRootKinds)
               /\ node.kind \in SkipRootKinds =>
                     \A k \in 1..Len(got) :
                         got[k].range # text_range(p, PatStart(node, at, j), <<>>)
               /\ (node.kind \in KeepRootKinds /\ IsLeaf(p, <<>>)
                      /\ Hintable(type_of_pat(p, <<>>))) =>
                     Ranges(got) = <<text_range(p, PatStart(node, at, j), <<>>)>>

\* C2 witness: an if-let, while-let or match arm whose pattern is a lone
\* binding of known type has been visited.
C2_Witness ==
    \E i \in 1..Len(file) :
        /\ Visited(i)
        /\ file[i].kind \in SkipRootKinds
        /\ Requested(file[i], 1)
        /\ IsLeaf(file[i].pats[1].pat[1], <<>>)
        /\ Hintable(type_of_pat(file[i].pats[1].pat[1], <<>>))
        /\ HintsOf(i) = <<>>

(* ----------------------- claims on call hints ------------------------- *)

CallKinds == {"CALL_EXPR", "METHOD_CALL_EXPR"}

\* The parameter names of the resolved callable, none when unresolved.
SigNames(node) == IF node.sig = <<>> THEN <<>> ELSE node.sig[1]

\* 1 for a method call (the receiver), 0 for a call.
Receiver(node) == IF node.kind = "METHOD_CALL_EXPR" THEN 1 ELSE 0

\* Number of parameter names left after removing the receiver.
ParamCount(node) ==
    IF Len(SigNames(node)) >= Receiver(node)
    THEN Len(SigNames(node)) - Receiver(node) ELSE 0

\* C3: a call gets at most min(arguments, parameters without the receiver)
\* hints, each a ParameterHint with a non-empty label on a literal argument
\* within the shorter of the two sequences.
C3_ParamHintsBounded ==
    \A i \in 1..Len(file) :
        (Visited(i) /\ file[i].kind \in CallKinds) =>
            LET node == file[i]
                at == NodeStart(file, i)
                n == Min(Len(node.args), ParamCount(node))
                hs == HintsOf(i)
            IN /\ Len(hs) <= n
               /\ \A k \in 1..Len(hs) :
                     /\ hs[k].kind = "ParameterHint"
                     /\ hs[k].label # ""
                     /\ \E a \in 1..n :
                           /\ hs[k].range = arg_text_range(node, at, a)
                           /\ node.args[a] = "LITERAL"

\* C3 witness: a visited call with a literal argument beyond its parameter
\* names and a hint on an earlier argument.
C3_Witness ==
    \E i \in 1..Len(file) :
        /\ Visited(i)
        /\ file[i].kind \in CallKinds
        /\ Len(file[i].args) > ParamCount(file[i])
        /\ file[i].args[Len(file[i].args)] = "LITERAL"
        /\ Len(HintsOf(i)) = ParamCount(file[i])
        /\ ParamCount(file[i]) > 0

\* The arguments of a visited call that are to be hinted: literals paired
\* with a non-empty name.
HintedArgs(node) ==
    SelectIdx([a \in 1..Min(Len(node.args), ParamCount(node)) |->
                 node.args[a] = "LITERAL" /\ SigNames(node)[a + Receiver(node)] # ""])

\* C4: argument a of a method call is labelled with parameter name a + 1 and
\* never with the receiver's name, argument a of a call with name a, and the
\* range of each hint is the span of its argument.
C4_PositionalPairing ==
    \A i \in 1..Len(file) :
        (Visited(i) /\ file[i].kind \in CallKinds /\ file[i].present) =>
            LET node == file[i]
                at == NodeStart(file, i)
                hs == HintsOf(i)
                as == HintedArgs(node)
            IN /\ Len(hs) = Len(as)
               /\ \A k \in 1..Len(hs) :
                     /\ hs[k].range = arg_text_range(node, at, as[k])
                     /\ hs[k].label = SigNames(node)[as[k] + Receiver(node)]
                     /\ node.kind = "METHOD_CALL_EXPR" =>
                           hs[k].label # SigNames(node)[1]

\* C4 witness: a visited method call whose first argument carries the name
\* of the second parameter.
C4_Witness ==
    \E i \in 1..Len(file) :
        /\ Visited(i)
        /\ file[i].kind = "METHOD_CALL_EXPR"
        /\ Len(HintsOf(i)) >= 1
        /\ HintsOf(i)[1].range = arg_text_range(file[i], NodeStart(file, i), 1)
        /\ HintsOf(i)[1].label = SigNames(file[i])[2]

(* ---------------------- claims on the traversal ----------------------- *)

\* The hints the k-th node of the file produces on its own.
OwnHints(k) ==
    get_inlay_hints(<<>>, file[k], NodeStart(file, k), max_inlay_hint_length)

\* The hints of the first n nodes of the file, node after node.
HintsUpTo(n) ==
    LET RECURSIVE H(_)
        H(k) == IF k = 0 THEN <<>> ELSE H(k - 1) \o OwnHints(k)
    IN H(n)

\* The node of the file a hint is anchored in.
NodeOfHint(h) ==
    CHOOSE i \in 1..Len(file) : InSpan(h.range, NodeSpan(file, i))

\* C6: the list is the concatenation, in traversal order, of the hints each
\* node produces: the hints of an earlier node precede those of a later one,
\* and what is returned is the list after the last node.
C6_TraversalOrder ==
    /\ pc = "run" => res = HintsUpTo(pos - 1)
    /\ \A k, l \in 1..Len(res) : k < l => NodeOfHint(res[k]) <= NodeOfHint(res[l])
    /\ \A r \in 1..Len(returned) : returned[r] = HintsUpTo(Len(file))

\* C6 witness: a file of two nodes that both produce hints has been
\* traversed and its list returned.
C6_Witness ==
    /\ pc = "idle"
    /\ Len(returned) >= 1
    /\ Len(file) = 2
    /\ HintsOf(1) # <<>>
    /\ HintsOf(2) # <<>>
    /\ returned[1] = HintsOf(1) \o HintsOf(2)

\* C9: every invocation on the unchanged input returns the list the first
\* one returned: each starts from an empty list of its own.
C9_SameInputSameHints ==
    \A r \in 1..Len(returned) : returned[r] = returned[1]

\* C9 witness: two invocations have returned, the first a list with hints.
C9_Witness ==
    /\ Len(returned) >= 2
    /\ returned[1] # <<>>
    /\ returned[2] = returned[1]

\* A lookup of the request of this node fails: the pattern, the condition or
\* the argument list is missing, or the callable is unresolved.
Failing(node) ==
    \/ node.kind \in {"LET_STMT", "FOR_EXPR"} /\ ~node.ascribed /\ node.pats[1].pat = <<>>
    \/ node.kind \in {"IF_EXPR", "WHILE_EXPR"} /\ (~node.present \/ node.pats[1].pat = <<>>)
    \/ node.kind = "LAMBDA_EXPR" /\ ~node.present
    \/ node.kind \in CallKinds /\ (~node.present \/ node.sig = <<>>)

\* Pattern p has a leaf the oracle does not type and a leaf it does.
HasMixedLeaves(p) ==
    /\ \E k \in 1..Len(get_leaf_pats(p)) : ~Hintable(type_of_pat(p, get_leaf_pats(p)[k]))
    /\ HasTypedNestedLeaf(p)

\* C10: a node whose lookup fails adds no hint, a leaf without a type adds
\* none while the other leaves of its pattern are hinted, and the hints of
\* every visited node, before or after a failure, are those it produces.
C10_FailuresAreLocal ==
    \A i \in 1..Len(file) :
        Visited(i) =>
            /\ Failing(file[i]) => HintsOf(i) = <<>>
            /\ \A j \in 1..Len(file[i].pats) :
                  Requested(file[i], j) =>
                      Ranges(SelectSeq(res,
                          LAMBDA h : InSpan(h.range, PatSpan(file[i], NodeStart(file, i), j))))
                      = LeafRanges(file[i].pats[j].pat[1], PatStart(file[i], NodeStart(file, i), j),
                                   file[i].kind \in SkipRootKinds)
            /\ file[i].kind \in CallKinds /\ ~Failing(file[i]) =>
                  Len(HintsOf(i)) = Len(HintedArgs(file[i]))

\* C10 witness: a node whose lookup failed and then a node with a leaf
\* without a type have been visited, and the second node has its hint.
C10_Witness ==
    /\ Len(file) = 2
    /\ Visited(2)
    /\ Failing(file[1])
    /\ Requested(file[2], 1)
    /\ HasMixedLeaves(file[2].pats[1].pat[1])
    /\ HintsOf(2) # <<>>

(* -------------------- claims on the leaves hinted --------------------- *)

Count(seq, x) == Cardinality({k \in 1..Len(seq) : seq[k] = x})

NoDuplicates(seq) == \A k, l \in 1..Len(seq) : k # l => seq[k] # seq[l]

\* The shorthand bindings without a nested pattern of the record at path r.
PlainShorthands(root, r) ==
    LET p == PatAt(root, r) IN
    {r \o <<e>> : e \in {e \in 1..Len(p.kids) :
                            p.kind = "RecordPat" /\ p.short[e] /\ p.kids[e].kids = <<>>}}

\* C7: a shorthand binding without a nested pattern is a leaf exactly once
\* for its record pattern and never twice for a pattern around it, no node
\* occurs twice among the leaves, and no two hints have the same range.
C7_NoDuplicateLeaves ==
    /\ \A i \in 1..Len(file) : \A j \in 1..Len(file[i].pats) :
          file[i].pats[j].pat # <<>> =>
              LET p == file[i].pats[j].pat[1] IN
              /\ NoDuplicates(get_leaf_pats(p))
              /\ \A b \in PlainShorthands(p, <<>>) : Count(get_leaf_pats(p), b) = 1
              /\ \A r \in AllPaths(p) : \A b \in PlainShorthands(p, r) :
                    Count(get_leaf_pats(p), b) <= 1
    /\ NoDuplicates(Ranges(res))

\* C7 witness: a let whose pattern is a record of two shorthand bindings of
\* known type has been visited and has its two hints.
C7_Witness ==
    /\ Visited(1)
    /\ Requested(file[1], 1)
    /\ file[1].pats[1].pat[1].kind = "RecordPat"
    /\ file[1].pats[1].pat[1].short = <<TRUE, TRUE>>
    /\ Len(HintsOf(1)) = 2

(* ----------------------- claims on the labels ------------------------- *)

RECURSIVE FullText(_)
\* The full text of a type: its name and, in angle brackets, its arguments.
FullText(ty) ==
    LET RECURSIVE J(_)
        J(k) == IF k > Len(ty.args) THEN ""
                ELSE (IF k > 1 THEN ", " ELSE "") \o FullText(ty.args[k]) \o J(k + 1)
    IN IF ty.args = <<>> THEN ty.name ELSE ty.name \o "<" \o J(1) \o ">"

StartsWith(text, prefix) ==
    Len(prefix) <= Len(text) /\ SubSeq(text, 1, Len(prefix)) = prefix

\* An ellipsis marker starts at position k of text.
EllipsisAt(text, k) ==
    k + Len(Ellipsis) - 1 <= Len(text) /\ SubSeq(text, k, k + Len(Ellipsis) - 1) = Ellipsis

Ellipses(text) == {k \in 1..Len(text) : EllipsisAt(text, k)}

IsNameChar(c) == c \notin {"<", ">", ",", " ", "."}

\* A type name starts at position k of text.
NameStartAt(text, k) ==
    /\ IsNameChar(SubSeq(text, k, k))
    /\ k > 1 => ~IsNameChar(SubSeq(text, k - 1, k - 1))

\* The i-th node is a visited let without annotation whose pattern is one
\* binding of a type the oracle knows: its hint carries the rendered type.
Rendered(i) ==
    /\ Visited(i)
    /\ file[i].kind = "LET_STMT"
    /\ Requested(file[i], 1)
    /\ IsLeaf(file[i].pats[1].pat[1], <<>>)
    /\ Hintable(type_of_pat(file[i].pats[1].pat[1], <<>>))

TypeOf(i) == type_of_pat(file[i].pats[1].pat[1], <<>>)

Label(i) == HintsOf(i)[1].label

Uncapped(text) ==
    ~max_inlay_hint_length.some \/ max_inlay_hint_length.val >= Len(text)

IsPrefix(a, b) == Len(a) <= Len(b) /\ SubSeq(b, 1, Len(a)) = a

\* The positions of path x in the sequence of paths seq.
PositionsOf(seq, x) == {k \in 1..Len(seq) : seq[k] = x}

\* The written field patterns (`field: pat`) and the shorthand fields of the
\* record pattern p, as indices of its field list.
ExplicitFields(p) == {i \in 1..Len(p.kids) : ~p.short[i]}
ShorthandFields(p) == {i \in 1..Len(p.kids) : p.short[i]}

\* What a shorthand field is enqueued as: the nested pattern of the binding
\* when it has one, the binding itself otherwise.
ShorthandEntry(p, r, i) ==
    IF p.kids[i].kids # <<>> THEN r \o <<i, 1>> ELSE r \o <<i>>

\* The paths of the fields written `field: name` in the record patterns of
\* root.
NamedFields(root) ==
    {x \in AllPaths(root) :
        /\ x # <<>>
        /\ PatAt(root, Parent(x)).kind = "RecordPat"
        /\ ~PatAt(root, Parent(x)).short[x[Len(x)]]
        /\ PatAt(root, x).kind = "BindPat"}

\* The step of the loop that expands the record pattern at the front of the
\* queue, with `added` what it pushed to the back.
RecordExpansion(r, added) ==
    LET p == PatAt(root_pat, r) IN
    /\ \A i \in ExplicitFields(p) :
          /\ Cardinality(PositionsOf(added, r \o <<i>>))
                = IF p.kids[i].kind # "BindPat" THEN 1 ELSE 0
          /\ \A k \in 1..Len(added) :
                IsPrefix(r \o <<i>>, added[k]) => added[k] = r \o <<i>>
    /\ \A i \in ShorthandFields(p) :
          /\ Cardinality(PositionsOf(added, ShorthandEntry(p, r, i))) = 1
          /\ \A k \in 1..Len(added) :
                IsPrefix(r \o <<i>>, added[k]) => added[k] = ShorthandEntry(p, r, i)
    /\ \A k \in 1..Len(added) : IsPrefix(r, added[k]) /\ added[k] # r
    /\ \A i \in ExplicitFields(p), j \in ShorthandFields(p) :
          \A k \in PositionsOf(added, r \o <<i>>) :
             \A l \in PositionsOf(added, ShorthandEntry(p, r, j)) : k < l
    /\ \A i, j \in ExplicitFields(p) :
          \A k \in PositionsOf(added, r \o <<i>>) :
             \A l \in PositionsOf(added, r \o <<j>>) : i < j => k < l
    /\ \A i, j \in ShorthandFields(p) :
          \A k \in PositionsOf(added, ShorthandEntry(p, r, i)) :
             \A l \in PositionsOf(added, ShorthandEntry(p, r, j)) : i < j => k < l

\* C11: the step that expands a record pattern enqueues a written field
\* pattern if and only if it is not a name binding, then every shorthand
\* field, as the nested pattern of its binding when there is one and as the
\* binding itself otherwise, and nothing else; no leaf is ever recorded for
\* or under a field written `field: name`, while a written field pattern of
\* another kind is in the queue after the step, to be expanded in its turn.
C11_RecordFieldFiltering ==
    [][/\ FrontKind("RecordPat") =>
            /\ Len(pats_to_process') >= Len(pats_to_process) - 1
            /\ SubSeq(pats_to_process', 1, Len(pats_to_process) - 1)
                  = Tail(pats_to_process)
            /\ RecordExpansion(Head(pats_to_process),
                               SubSeq(pats_to_process', Len(pats_to_process),
                                      Len(pats_to_process')))
            /\ leaf_pats' = leaf_pats
        /\ \A x \in NamedFields(root_pat) :
              \A k \in 1..Len(leaf_pats') : ~IsPrefix(x, leaf_pats'[k])
      ]_vars

\* `S { f: name, g: (), s }`: a written name binding, a written pattern of
\* another kind and a shorthand field.
RecordMixed ==
    Pat("RecordPat", <<Bind(I32), Tuple(<<>>), Bind(I32)>>, <<FALSE, FALSE, TRUE>>, NoType)

\* C11 witness: the loop has expanded `S { f: name, g: (), s }` and
\* returned s as its only leaf.
C11_Witness ==
    /\ loop_pc = "done"
    /\ root_pat = RecordMixed
    /\ leaf_pats = <<<<3>>>>

(* --------------------- claims on the worklist loop --------------------- *)

\* An iteration of the loop has just been taken.
Iteration == loop_pc = "loop" /\ pats_to_process # <<>> /\ popped' # popped

\* What the iteration pushed to the back of the queue.
Pushed ==
    SubSeq(pats_to_process', Len(pats_to_process), Len(pats_to_process'))

\* Some node of root is a name binding without a nested pattern.
HasBinding(root) ==
    \E x \in AllPaths(root) :
        PatAt(root, x).kind = "BindPat" /\ PatAt(root, x).kids = <<>>

\* C12: on every pattern the loop ends; no node is enqueued twice or
\* dequeued twice; an iteration removes the front node and either records
\* it as a leaf, or pushes only nodes strictly inside it, or does nothing;
\* when the loop has ended the queue is empty, at most every node of the
\* pattern was dequeued, and the result is empty when the pattern has no
\* name binding (a bare wildcard).
C12_WorklistTerminates ==
    /\ [](NoDuplicates(popped \o pats_to_process))
    /\ [][Iteration =>
            /\ popped' = Append(popped, Head(pats_to_process))
            /\ Len(pats_to_process') >= Len(pats_to_process) - 1
            /\ SubSeq(pats_to_process', 1, Len(pats_to_process) - 1)
                  = Tail(pats_to_process)
            /\ \A k \in 1..Len(Pushed) :
                  /\ IsPrefix(Head(pats_to_process), Pushed[k])
                  /\ Pushed[k] # Head(pats_to_process)
            /\ \/ leaf_pats' = Append(leaf_pats, Head(pats_to_process)) /\ Pushed = <<>>
               \/ leaf_pats' = leaf_pats
         ]_vars
    /\ <>(loop_pc = "done")
    /\ [](loop_pc = "done" =>
            /\ pats_to_process = <<>>
            /\ Len(popped) <= Size(root_pat)
            /\ ~HasBinding(root_pat) => leaf_pats = <<>>)

\* C12 witness: the loop has ended on a bare wildcard, dequeued once, with
\* an empty result.
C12_Witness ==
    /\ loop_pc = "done"
    /\ root_pat.kind = "PlaceholderPat"
    /\ popped = <<<<>>>>
    /\ pats_to_process = <<>>
    /\ leaf_pats = <<>>

====
